---- MODULE Spec2Model ----
(***************************************************************************)
(* RezLauncher: the stage version store and the three operations that      *)
(* write to it (Bake, Push, Revert), as issued by the Svelte front end.    *)
(*                                                                         *)
(* Several sessions (application windows) share one backing store.  Each   *)
(* session runs the handlers of src/src/lib/components/*.svelte; every     *)
(* `await invoke(...)` is a request that stays pending in `net` until the  *)
(* command layer executes it, and the code after the await runs in the     *)
(* same step as the command's execution (nothing of a session reads the    *)
(* store between the two).                                                 *)
(*                                                                         *)
(* The Tauri commands themselves (src-tauri/src/main.rs) are not part of   *)
(* the sources at hand: save_stage_to_mongodb, revert_stage,               *)
(* get_stage_history, get_all_stage_names and                              *)
(* get_package_collection_tools are modelled from spec.md sections 4-7.    *)
(*                                                                         *)
(* Strings the code looks into (stage names, which handlePush trims) are   *)
(* sequences of one-character strings; a URI is its sequence of segments,  *)
(* the empty sequence being the empty string.  The empty string "" stands  *)
(* for null where the code keeps a message or null.  A document's _id is   *)
(* its index in `store`; 0 stands for a null id.                           *)
(***************************************************************************)
EXTENDS Naturals, Sequences, FiniteSets, TLC

VARIABLES store, clock, opened, net, bakeM, pushM, revM, last, pre,
          colls, page, lastQuery

vars ==
  <<store, clock, opened, net, bakeM, pushM, revM, last, pre,
    colls, page, lastQuery>>

(***************************************************************************)
(* Bounds                                                                  *)
(***************************************************************************)
\* The number of operations users start (modals they open), and of times a
\* form stamps created_at.
MaxOps == 3

\* The number of operations the user of the page starts (selections,
\* refreshes, submissions).
MaxPageOps == 3

\* The number of bakes started with a list of environment variables built
\* entry by entry.
MaxEnvOps == 1

\* The number of operations two sessions start side by side on a store that
\* already holds versions.
MaxRaceOps == 2
MaxNavOps == 3

Sessions == {"s1", "s2"}

\* created_by: the OS user of each session (get_current_username).
currentUsername(s) == IF s = "s1" THEN "alice" ELSE "bob"

(***************************************************************************)
(* Strings                                                                 *)
(***************************************************************************)
SP == " "

\* String.prototype.trim: strips leading and trailing white space.
RECURSIVE TrimLeft(_)
TrimLeft(str) ==
  IF str # << >> /\ Head(str) = SP THEN TrimLeft(Tail(str)) ELSE str

RECURSIVE TrimRight(_)
TrimRight(str) ==
  IF str # << >> /\ str[Len(str)] = SP
    THEN TrimRight(SubSeq(str, 1, Len(str) - 1))
    ELSE str

\* A name taken as typed, without trim.
trimNone(str) == str

trim(str) == TrimRight(TrimLeft(str))

\* The texts typed into the new-stage-name input of the push modal.
TypedNames ==
  { << >>, <<SP>>, <<"d">>, <<SP, "q">> }

\* The texts typed into the bake-name input.
TypedBakeNames == { << >>, <<"d">>, <<"q">> }

(***************************************************************************)
(* Package collections (read only in this specification)                   *)
(***************************************************************************)
UriProj == <<"proj">>

UriChar == <<"proj", "char">>

PackageCollections ==
  { [version |-> "1.0.0", uri |-> UriProj, tools |-> <<"maya">>],
    [version |-> "1.0.1", uri |-> UriChar, tools |-> <<"nuke">>] }

\* Items of the Package Collections panel.  fetchPackageCollectionsByUri
\* maps a collection to {version, baked, uri}; handlePackageSubmit appends
\* {version, baked} with no uri (here for the collection it has just saved
\* under UriChar) until the next successful fetch replaces the list.  An
\* absent uri reads as '' in SectionPanel (selectedItem?.uri || '').
PackageItems ==
  { [version |-> "1.0.0", uri |-> UriProj],
    [version |-> "1.0.1", uri |-> << >>] }

\* The environment variable lists of the bake form: addEnvVar keeps the keys
\* distinct.
EnvVarLists == { << >>, << [key |-> <<"K">>, value |-> <<"1">>] >> }

\* The texts left in the key and value inputs of the bake form at submit.
EnvInputs == { << << >>, <<"2">> >>, << <<SP, "K">>, <<"2">> >> }

(***************************************************************************)
(* The command layer (modelled from spec.md)                               *)
(***************************************************************************)
\* The artifact the backend generates for a stage submitted with rxt = ''
\* ("will be populated by the backend").
RxtOf(version) == <<"rxt", version>>

\* Sets active = false on every stored document sharing `name`.
Deactivate(st, name) ==
  [i \in DOMAIN st |->
     IF st[i].name = name THEN [st[i] EXCEPT !.active = FALSE] ELSE st[i]]

\* The document stored for a submitted stageData object; a field the object
\* does not carry is stored empty.
StoredDoc(p) ==
  [ name                  |-> p.name,
    uri                   |-> p.uri,
    from_version          |-> p.from_version,
    rxt                   |-> IF p.rxt = << >> THEN RxtOf(p.from_version) ELSE p.rxt,
    tools                 |-> p.tools,
    environment_variables |-> IF "environment_variables" \in DOMAIN p
                                THEN p.environment_variables
                                ELSE << >>,
    created_at            |-> p.created_at,
    created_by            |-> p.created_by,
    active                |-> p.active ]

\* A save that writes the submitted document over the active document of
\* its name (an upsert keyed by name) when there is one.
save_stage_upsert(st, p) ==
  IF \E i \in DOMAIN st : st[i].name = p.name /\ st[i].active
    THEN [i \in DOMAIN st |->
            IF st[i].name = p.name /\ st[i].active THEN StoredDoc(p) ELSE st[i]]
    ELSE Append(st, StoredDoc(p))

\* save_stage_to_mongodb: one atomic write that deactivates the documents
\* sharing the name and inserts the submitted one.
save_stage_to_mongodb(st, p) == Append(Deactivate(st, p.name), StoredDoc(p))

\* A save that fails after it has deactivated the documents sharing the name
\* and before it has inserted the new one.
save_failed_partial(st, p) == Deactivate(st, p.name)

\* save_stage_to_mongodb when persistence fails: the write is one atomic
\* update, so nothing of it is stored.
save_failed(st, p) == st

\* revert_stage when it fails (persistence failure, or no such document):
\* nothing is written.
revert_failed(st, stageId) == st

\* revert_stage that reactivates a version by storing a copy of it.
revert_stage_copy(st, stageId) ==
  Append([i \in DOMAIN st |->
            IF st[i].name = st[stageId].name
              THEN [st[i] EXCEPT !.active = FALSE]
              ELSE st[i]],
         [st[stageId] EXCEPT !.active = TRUE])

\* revert_stage: one atomic write (atomicSetActive) that makes the document
\* the only active one of its name.  Defined for stored ids only.
revert_stage(st, stageId) ==
  [i \in DOMAIN st |->
     IF i = stageId
       THEN [st[i] EXCEPT !.active = TRUE]
       ELSE IF st[i].name = st[stageId].name
              THEN [st[i] EXCEPT !.active = FALSE]
              ELSE st[i]]

\* Whether revert_stage finds the document it is asked to activate.
StageFound(st, stageId) == stageId \in DOMAIN st

\* The ids, in storage order, of the documents of a collection whose uri is
\* exactly `uri`.
RECURSIVE UriIds(_, _, _)
UriIds(docs, uri, i) ==
  IF i > Len(docs)
    THEN << >>
    ELSE IF docs[i].uri = uri
           THEN <<i>> \o UriIds(docs, uri, i + 1)
           ELSE UriIds(docs, uri, i + 1)

\* s is a prefix of t.
IsPrefix(s, t) == Len(s) <= Len(t) /\ SubSeq(t, 1, Len(s)) = s

\* The ids of the documents whose uri starts with `uri`.
RECURSIVE UriPrefixIds(_, _, _)
UriPrefixIds(docs, uri, i) ==
  IF i > Len(docs)
    THEN << >>
    ELSE IF IsPrefix(uri, docs[i].uri)
           THEN <<i>> \o UriPrefixIds(docs, uri, i + 1)
           ELSE UriPrefixIds(docs, uri, i + 1)

\* A listing that matches the uri as a prefix.
get_by_uri_prefix(docs, uri) == UriPrefixIds(docs, uri, 1)

\* get_stages_by_uri: the ids of the stage documents whose uri equals the
\* given scope.
get_stages_by_uri(st, uri) == UriIds(st, uri, 1)

\* get_package_collections_by_uri: the ids of the package collections whose
\* uri equals the given scope.
get_package_collections_by_uri(cs, uri) == UriIds(cs, uri, 1)

\* The ids, in storage order, of the documents with this name and uri.
RECURSIVE HistoryIds(_, _, _, _)
HistoryIds(st, name, uri, i) ==
  IF i > Len(st)
    THEN << >>
    ELSE IF st[i].name = name /\ st[i].uri = uri
           THEN <<i>> \o HistoryIds(st, name, uri, i + 1)
           ELSE HistoryIds(st, name, uri, i + 1)

\* A history that lists every document under the uri, whatever its name.
get_stage_history_any_name(st, name, uri) ==
  LET ids == UriIds(st, uri, 1)
  IN  [k \in DOMAIN ids |->
         [ _id          |-> ids[k],
           from_version |-> st[ids[k]].from_version,
           created_at   |-> st[ids[k]].created_at,
           created_by   |-> st[ids[k]].created_by,
           active       |-> st[ids[k]].active ]]

\* get_stage_history: the documents sharing name and uri, each with its
\* active flag.
get_stage_history(st, name, uri) ==
  LET ids == HistoryIds(st, name, uri, 1)
  IN  [k \in DOMAIN ids |->
         [ _id          |-> ids[k],
           from_version |-> st[ids[k]].from_version,
           created_at   |-> st[ids[k]].created_at,
           created_by   |-> st[ids[k]].created_by,
           active       |-> st[ids[k]].active ]]

\* get_all_stage_names: the distinct names of the stored documents.
get_all_stage_names(st) == { st[i].name : i \in DOMAIN st }

\* get_package_collection_tools: the tools of the collection (version, uri),
\* none when there is no such collection.
get_package_collection_tools(version, uri) ==
  IF \E c \in PackageCollections : c.version = version /\ c.uri = uri
    THEN (CHOOSE c \in PackageCollections :
            c.version = version /\ c.uri = uri).tools
    ELSE << >>

\* The stored collection that already has the version and uri of a
\* submitted one.
VersionTaken(cs, packageData) ==
  \E i \in DOMAIN cs :
    /\ cs[i].uri = packageData.uri
    /\ cs[i].version = packageData.version

\* The document stored for a submitted packageData object.
StoredCollection(packageData) ==
  [ version    |-> packageData.version,
    packages   |-> packageData.packages,
    herit      |-> packageData.herit,
    tools      |-> packageData.tools,
    created_at |-> packageData.created_at,
    created_by |-> packageData.created_by,
    uri        |-> packageData.uri ]

\* A save that stores the submitted collection whatever is stored already.
save_package_collection_any(cs, packageData) ==
  [ error |-> "", collections |-> Append(cs, StoredCollection(packageData)) ]

\* A save that writes over the collection the form was seeded from.
save_package_collection_update(cs, packageData) ==
  IF VersionTaken(cs, packageData)
    THEN [ error |-> "version exists", collections |-> cs ]
    ELSE IF packageData.originalData._id \in DOMAIN cs
      THEN [ error |-> "",
             collections |-> [cs EXCEPT ![packageData.originalData._id] =
                                           StoredCollection(packageData)] ]
      ELSE [ error |-> "",
             collections |-> Append(cs, StoredCollection(packageData)) ]

\* save_package_collection: inserts the submitted collection as a new
\* document; a version the uri already has is answered with an error and
\* not stored again.
save_package_collection(cs, packageData) ==
  IF VersionTaken(cs, packageData)
    THEN [ error |-> "version exists", collections |-> cs ]
    ELSE [ error |-> "",
           collections |-> Append(cs, StoredCollection(packageData)) ]

\* save_package_collection on a persistence failure: nothing is stored.
save_collection_failed(cs, packageData) ==
  [ error |-> "persistence", collections |-> cs ]

(***************************************************************************)
(* Session state                                                           *)
(***************************************************************************)
\* selectedItem = null: the props of BakeModal read '' for version and uri.
NoPackage == [version |-> "", uri |-> << >>]

\* stageToPush = null.
NoStage == [src |-> 0]

\* No click on Add yet (or none since an entry was removed).
NoAdd == [key |-> << >>, value |-> << >>, before |-> << >>]

\* envVars is the list of the bake form as the clicks on Add and on the
\* remove buttons build it; `added` is the last click on Add: the texts of
\* the two inputs and the list it found.
ClosedBake ==
  [open |-> FALSE, selectedItem |-> NoPackage, packageTools |-> << >>,
   alerted |-> FALSE, envVars |-> << >>, added |-> NoAdd]

ClosedPush ==
  [open |-> FALSE, stageData |-> NoStage, existingStageNames |-> {},
   loading |-> TRUE, error |-> ""]

ClosedRevert ==
  [open |-> FALSE, stageName |-> << >>, stageUri |-> << >>,
   stageVersions |-> << >>, selectedStageId |-> 0, clicked |-> 0,
   loading |-> TRUE, error |-> ""]

(***************************************************************************)
(* Page state: src/src/routes/+page.svelte (the window of session s1)      *)
(***************************************************************************)
UriMaya == <<"proj", "char", "maya">>

\* The package collections stored before the application starts.
SeedCollection(version, uri, tools) ==
  [ version    |-> version,
    packages   |-> <<"core">>,
    herit      |-> "",
    tools      |-> tools,
    created_at |-> 0,
    created_by |-> "alice",
    uri        |-> uri ]

SeedCollections ==
  << SeedCollection("1.0.0", UriProj, <<"maya">>),
     SeedCollection("1.0.1", UriChar, <<"nuke">>),
     SeedCollection("1.0.2", UriMaya, <<"maya">>) >>

\* currentPackageData = null.
NoCollection == [_id |-> 0]

\* Messages are the pieces of the template literal that builds them; the
\* empty sequence is the empty string.
NoMessage == << >>

noUriSelectedMessage ==
  <<"Select a URI to view stages or package collections">>

\* The command of the page that was executed last, and what it returned:
\* `ids` are the documents returned (or stored) and `size` the number of
\* documents stored before; `arg` is the version a save was called with.
NoQuery ==
  [cmd |-> "none", uri |-> << >>, arg |-> "", ok |-> FALSE, ids |-> << >>,
   size |-> 0]

\* fetchAllUrisAndUpdateOptions: the options of the three dropdowns, taken
\* from the segments of the stored collections' URIs.
Segments(cs, k) ==
  {"select"} \cup { cs[i].uri[k] : i \in { j \in DOMAIN cs : Len(cs[j].uri) >= k } }

\* The page once initApp has run with every command succeeding: options from
\* the stored URIs, no project selected, both fetches finding the URI empty.
\* activePackage "" and activeStage << >> stand for null.
\* submitRejected: the last entry handlePackageSubmit wrote to the log is
\* the error 'Impossible de creer un package: ...'.
\* `reverting` is the stage named in the last 'Reverting stage: ...' entry
\* that revertStage wrote to the log, empty when there is none.
initApp(cs) ==
  [ projectSelection         |-> "select",
    modelingSelection        |-> "select",
    applicationSelection     |-> "select",
    showModelingCombobox     |-> FALSE,
    showApplicationCombobox  |-> FALSE,
    projectDropdownOpen      |-> FALSE,
    modelingDropdownOpen     |-> FALSE,
    applicationDropdownOpen  |-> FALSE,
    isAddingProjectOption    |-> FALSE,
    isAddingModelingOption   |-> FALSE,
    isAddingApplicationOption |-> FALSE,
    newOptionText            |-> << >>,
    projectOptions           |-> Segments(cs, 1),
    modelingOptions          |-> Segments(cs, 2),
    applicationOptions       |-> Segments(cs, 3),
    currentUri               |-> << >>,
    packageCollections       |-> << >>,
    packages                 |-> << >>,
    packageCollectionMessage |-> noUriSelectedMessage,
    stages                   |-> << >>,
    stageMessage             |-> noUriSelectedMessage,
    packageModalOpen         |-> FALSE,
    isEditingPackage         |-> FALSE,
    currentPackageData       |-> NoCollection,
    reverting                |-> << >>,
    submitRejected           |-> FALSE,
    activePackage            |-> "",
    activeStage              |-> << >>,
    tools                    |-> << >> ]

\* What the last executed write command was and what its caller did with the
\* outcome; `pre` is the store that command found.
NoForm == [kind |-> "none"]

NoCommand ==
  [op |-> "none", session |-> "", ok |-> FALSE, id |-> 0, src |-> 0,
   err |-> "", event |-> "", form |-> NoForm]

Init ==
  /\ store = << >>
  /\ clock = 0
  /\ opened = 0
  /\ net = [s \in Sessions |-> {}]
  /\ bakeM = [s \in Sessions |-> ClosedBake]
  /\ pushM = [s \in Sessions |-> ClosedPush]
  /\ revM = [s \in Sessions |-> ClosedRevert]
  /\ last = NoCommand
  /\ pre = << >>
  /\ colls = SeedCollections
  /\ page = initApp(SeedCollections)
  /\ lastQuery = NoQuery

Pending(s, cmd) == { r \in net[s] : r.cmd = cmd }

\* The overlay of an open modal covers the panels, and the panels wait for
\* the bake modal while its tools are being fetched.
NoModal(s) ==
  /\ ~bakeM[s].open
  /\ ~pushM[s].open
  /\ ~revM[s].open
  /\ Pending(s, "get_package_collection_tools") = {}

\* The URI of the current selections, as its segments.
buildCurrentUri(p) ==
  IF p.projectSelection = "select"
    THEN << >>
    ELSE IF ~p.showModelingCombobox \/ p.modelingSelection = "select"
      THEN <<p.projectSelection>>
      ELSE IF ~p.showApplicationCombobox \/ p.applicationSelection = "select"
        THEN <<p.projectSelection, p.modelingSelection>>
        ELSE <<p.projectSelection, p.modelingSelection,
               p.applicationSelection>>

\* fetchStagesByUri up to its await.
fetchStagesByUri(p) ==
  LET uri == buildCurrentUri(p)
  IN  IF uri = << >>
        THEN [p EXCEPT !.currentUri = uri,
                       !.stages = << >>,
                       !.stageMessage = noUriSelectedMessage]
        ELSE [p EXCEPT !.currentUri = uri]

\* The commands the fetch functions invoke for the selections of p: none
\* while the URI is empty.
Invoked(p, cmds) ==
  IF buildCurrentUri(p) = << >>
    THEN {}
    ELSE { [cmd |-> c, uri |-> buildCurrentUri(p)] : c \in cmds }

\* The page of session s1 listens to bake-complete (handleBakeComplete) and
\* to push-complete (handlePushComplete, refreshStages): on success it runs
\* fetchStagesByUri, here up to its await.
StagesRefreshed(s, ok) ==
  IF ok /\ s = "s1" THEN fetchStagesByUri(page) ELSE page

StagesInvoked(s, ok) ==
  IF ok /\ s = "s1" THEN Invoked(page, {"get_stages_by_uri"}) ELSE {}

(***************************************************************************)
(* Bake: SectionPanel.svelte and BakeModal.svelte                          *)
(***************************************************************************)
\* SectionPanel.openBakeModal up to its await.
openBakeModal(s, item) ==
  /\ NoModal(s)
  /\ opened' = opened + 1
  /\ bakeM' = [bakeM EXCEPT ![s].selectedItem = item]
  /\ net' = [net EXCEPT ![s] = @ \cup
               {[cmd |-> "get_package_collection_tools",
                 version |-> item.version, uri |-> item.uri]}]
  /\ UNCHANGED <<store, clock, pushM, revM, last, pre>>
  /\ UNCHANGED <<colls, page, lastQuery>>

\* SectionPanel.openBakeModal after its await: the result, or [] when the
\* command throws, and showBakeModal = true.
openBakeModalResume(s, r, ok) ==
  /\ r \in Pending(s, "get_package_collection_tools")
  /\ net' = [net EXCEPT ![s] = @ \ {r}]
  /\ bakeM' = [bakeM EXCEPT
                 ![s].packageTools =
                    IF ok THEN get_package_collection_tools(r.version, r.uri)
                          ELSE << >>,
                 ![s].open = TRUE]
  /\ UNCHANGED <<store, clock, opened, pushM, revM, last, pre>>
  /\ UNCHANGED <<colls, page, lastQuery>>

\* SectionPanel.closeBakeModal, with the reactive block of BakeModal that
\* clears the form when isOpen is false.
closeBakeModal(s) ==
  /\ bakeM[s].open
  /\ bakeM' = [bakeM EXCEPT ![s].open = FALSE,
                            ![s].selectedItem = NoPackage,
                            ![s].alerted = FALSE,
                            ![s].envVars = << >>,
                            ![s].added = NoAdd]
  /\ UNCHANGED <<store, clock, opened, net, pushM, revM, last, pre>>
  /\ UNCHANGED <<colls, page, lastQuery>>

\* Array.prototype.findIndex(v => v.key === key): 0 when there is none.
findIndex(envVars, key) ==
  IF \E i \in DOMAIN envVars : envVars[i].key = key
    THEN CHOOSE i \in DOMAIN envVars :
           /\ envVars[i].key = key
           /\ \A j \in DOMAIN envVars : envVars[j].key = key => i <= j
    ELSE 0

\* addEnvVar without the search for an existing key.
addEnvVarAlwaysAppends(envVars, currentEnvKey, currentEnvValue) ==
  IF trim(currentEnvKey) # << >> /\ trim(currentEnvValue) # << >>
    THEN Append(envVars, [key   |-> trim(currentEnvKey),
                          value |-> trim(currentEnvValue)])
    ELSE envVars

\* BakeModal.addEnvVar applied to the key and value inputs.
addEnvVar(envVars, currentEnvKey, currentEnvValue) ==
  IF trim(currentEnvKey) # << >> /\ trim(currentEnvValue) # << >>
    THEN LET existingIndex == findIndex(envVars, trim(currentEnvKey))
         IN  IF existingIndex >= 1
               THEN [envVars EXCEPT ![existingIndex].value = trim(currentEnvValue)]
               ELSE Append(envVars, [key   |-> trim(currentEnvKey),
                                     value |-> trim(currentEnvValue)])
    ELSE envVars

\* BakeModal.removeEnvVar: envVars.filter((_, i) => i !== index), with
\* indices from 1.
removeEnvVar(envVars, index) ==
  SubSeq(envVars, 1, index - 1) \o SubSeq(envVars, index + 1, Len(envVars))

\* A click on Add (or Enter in an input) with texts in the key and value
\* inputs.
clickAddEnvVar(s, currentEnvKey, currentEnvValue) ==
  /\ bakeM[s].open
  /\ bakeM' = [bakeM EXCEPT
                 ![s].envVars = addEnvVar(@, currentEnvKey, currentEnvValue),
                 ![s].added = [key |-> currentEnvKey,
                               value |-> currentEnvValue,
                               before |-> bakeM[s].envVars]]
  /\ UNCHANGED <<store, clock, opened, net, pushM, revM, last, pre>>
  /\ UNCHANGED <<colls, page, lastQuery>>

\* A click on the remove button of the entry at `index`.
clickRemoveEnvVar(s, index) ==
  /\ bakeM[s].open
  /\ index \in DOMAIN bakeM[s].envVars
  /\ bakeM' = [bakeM EXCEPT ![s].envVars = removeEnvVar(@, index),
                            ![s].added = NoAdd]
  /\ UNCHANGED <<store, clock, opened, net, pushM, revM, last, pre>>
  /\ UNCHANGED <<colls, page, lastQuery>>

\* handleSubmit without its validation.
bakeNameUnchecked(bakeName) == FALSE

\* BakeModal.handleSubmit: the validation `if (!bakeName)`.
bakeNameMissing(bakeName) == bakeName = << >>

\* formData that leaves out the variable still in the key and value inputs.
formDataNoPending(s, bakeName, envVars, input, stamp) ==
  [ name                  |-> bakeName,
    uri                   |-> bakeM[s].selectedItem.uri,
    from_version          |-> bakeM[s].selectedItem.version,
    rxt                   |-> << >>,
    tools                 |-> bakeM[s].packageTools,
    environment_variables |-> envVars,
    created_at            |-> stamp,
    created_by            |-> currentUsername(s),
    active                |-> TRUE ]

\* formData with `active: false`.
formDataInactive(s, bakeName, envVars, input, stamp) ==
  [ name                  |-> bakeName,
    uri                   |-> bakeM[s].selectedItem.uri,
    from_version          |-> bakeM[s].selectedItem.version,
    rxt                   |-> << >>,
    tools                 |-> bakeM[s].packageTools,
    environment_variables |-> addEnvVar(envVars, input[1], input[2]),
    created_at            |-> stamp,
    created_by            |-> currentUsername(s),
    active                |-> FALSE ]

\* BakeModal.handleSubmit: the formData object it dispatches.
formData(s, bakeName, envVars, input, stamp) ==
  [ name                  |-> bakeName,
    uri                   |-> bakeM[s].selectedItem.uri,
    from_version          |-> bakeM[s].selectedItem.version,
    rxt                   |-> << >>,
    tools                 |-> bakeM[s].packageTools,
    environment_variables |-> addEnvVar(envVars, input[1], input[2]),
    created_at            |-> stamp,
    created_by            |-> currentUsername(s),
    active                |-> TRUE ]

\* What the form held when it was submitted (kept with the request).
BakeForm(s, bakeName, envVars, input) ==
  [ kind |-> "bake", name |-> bakeName, item |-> bakeM[s].selectedItem,
    tools |-> bakeM[s].packageTools, envVars |-> envVars, input |-> input,
    src |-> 0 ]

\* BakeModal.handleSubmit, with SectionPanel.handleBakeSubmit up to its
\* await and closeBakeModal.
handleSubmit(s, bakeName, envVars, input) ==
  /\ bakeM[s].open
  /\ IF bakeNameMissing(bakeName)
       THEN /\ bakeM' = [bakeM EXCEPT ![s].alerted = TRUE]
            /\ UNCHANGED <<clock, net>>
       ELSE /\ clock' = clock + 1
            /\ net' = [net EXCEPT ![s] = @ \cup
                         {[cmd       |-> "save_stage_to_mongodb",
                           from      |-> "handleBakeSubmit",
                           stageData |-> formData(s, bakeName, envVars, input,
                                                  clock + 1),
                           form      |-> BakeForm(s, bakeName, envVars, input)]}]
            /\ bakeM' = [bakeM EXCEPT ![s].open = FALSE,
                                      ![s].selectedItem = NoPackage,
                                      ![s].alerted = FALSE,
                                      ![s].envVars = << >>,
                                      ![s].added = NoAdd]
  /\ UNCHANGED <<store, opened, pushM, revM, last, pre>>
  /\ UNCHANGED <<colls, page, lastQuery>>

\* SectionPanel.handleBakeSubmit: the bake-complete event it dispatches.
bakeCompleteEvent(ok) ==
  IF ok THEN "bake-complete success" ELSE "bake-complete failure"

\* handleBakeSubmit with a catch block that leaves the failed command to be
\* issued again.
handleBakeSubmitRetry(s, r, ok) ==
  /\ r \in Pending(s, "save_stage_to_mongodb")
  /\ r.from = "handleBakeSubmit"
  /\ net' = [net EXCEPT ![s] = (IF ok THEN @ \ {r} ELSE @)
                                 \cup StagesInvoked(s, ok)]
  /\ page' = StagesRefreshed(s, ok)
  /\ store' = IF ok THEN save_stage_to_mongodb(store, r.stageData)
                    ELSE save_failed(store, r.stageData)
  /\ pre' = store
  /\ last' = [ op |-> "bake", session |-> s, ok |-> ok,
               id |-> IF ok THEN Len(store) + 1 ELSE 0, src |-> 0,
               err |-> IF ok THEN "" ELSE "persistence",
               event |-> bakeCompleteEvent(ok),
               form |-> IF ok THEN r.form ELSE NoForm ]
  /\ UNCHANGED <<clock, opened, bakeM, pushM, revM>>
  /\ UNCHANGED <<colls, lastQuery>>

\* SectionPanel.handleBakeSubmit after its await; the command either writes
\* or fails without writing.
handleBakeSubmit(s, r, ok) ==
  /\ r \in Pending(s, "save_stage_to_mongodb")
  /\ r.from = "handleBakeSubmit"
  /\ net' = [net EXCEPT ![s] = (@ \ {r}) \cup StagesInvoked(s, ok)]
  /\ page' = StagesRefreshed(s, ok)
  /\ store' = IF ok THEN save_stage_to_mongodb(store, r.stageData)
                    ELSE save_failed(store, r.stageData)
  /\ pre' = store
  /\ last' = [ op |-> "bake", session |-> s, ok |-> ok,
               id |-> IF ok THEN Len(store) + 1 ELSE 0, src |-> 0,
               err |-> IF ok THEN "" ELSE "persistence",
               event |-> bakeCompleteEvent(ok),
               form |-> IF ok THEN r.form ELSE NoForm ]
  /\ UNCHANGED <<clock, opened, bakeM, pushM, revM>>
  /\ UNCHANGED <<colls, lastQuery>>

(***************************************************************************)
(* Push: SectionPanel.svelte and PushToModal.svelte                        *)
(***************************************************************************)
\* fetchStagesByUri: the item of the Stages panel made from a stored
\* document (src is the document it was made from, which the item itself
\* does not carry: neither _id nor environment_variables nor rxt are copied).
StageItem(st, id) ==
  [ name         |-> st[id].name,
    loaded       |-> FALSE,
    uri          |-> st[id].uri,
    from_version |-> st[id].from_version,
    rxt_path     |-> st[id].rxt,
    tools        |-> st[id].tools,
    src          |-> id ]

\* The documents the Stages panel can list: fetchStagesByUri asks for no
\* stages while the URI is empty.
Listed(st) == { id \in DOMAIN st : st[id].uri # << >> }

\* SectionPanel.openPushToModal, with the reactive blocks of PushToModal and
\* fetchInitialData up to its awaits.
openPushToModal(s, id) ==
  /\ NoModal(s)
  /\ opened' = opened + 1
  /\ id \in Listed(store)
  /\ pushM' = [pushM EXCEPT ![s].open = TRUE,
                            ![s].stageData = StageItem(store, id),
                            ![s].loading = TRUE,
                            ![s].error = ""]
  /\ net' = [net EXCEPT ![s] = @ \cup {[cmd |-> "get_all_stage_names"]}]
  /\ UNCHANGED <<store, clock, bakeM, revM, last, pre>>
  /\ UNCHANGED <<colls, page, lastQuery>>

\* PushToModal.fetchInitialData: names.filter(name => name !== stageData?.name).
otherStageNames(names, stageData) ==
  IF stageData = NoStage THEN names ELSE names \ {stageData.name}

\* PushToModal.fetchInitialData after its awaits.
fetchInitialData(s, r, ok) ==
  /\ r \in Pending(s, "get_all_stage_names")
  /\ net' = [net EXCEPT ![s] = @ \ {r}]
  /\ pushM' = IF ok
                THEN [pushM EXCEPT
                        ![s].existingStageNames =
                           otherStageNames(get_all_stage_names(store),
                                           pushM[s].stageData),
                        ![s].loading = FALSE]
                ELSE [pushM EXCEPT ![s].error = "Failed to load data",
                                   ![s].loading = FALSE]
  /\ UNCHANGED <<store, clock, opened, bakeM, revM, last, pre>>
  /\ UNCHANGED <<colls, page, lastQuery>>

\* SectionPanel.closePushToModal, with the reactive block of PushToModal
\* that runs when isOpen is false.
closedPush(m) ==
  [m EXCEPT !.open = FALSE, !.stageData = NoStage, !.error = "",
            !.loading = TRUE]

closePushToModal(s) ==
  /\ pushM[s].open
  /\ pushM' = [pushM EXCEPT ![s] = closedPush(@)]
  /\ UNCHANGED <<store, clock, opened, net, bakeM, revM, last, pre>>
  /\ UNCHANGED <<colls, page, lastQuery>>

\* PushToModal.handlePush: the target name.
targetName(useNewStageName, newStageName, selectedTargetStageName) ==
  IF useNewStageName THEN trim(newStageName) ELSE selectedTargetStageName

\* PushToModal.handlePush: the validation message.
targetNameError(useNewStageName) ==
  IF useNewStageName
    THEN "Please enter a name for the new stage."
    ELSE "Please select a target stage name."

\* newStageData whose spread is not overridden by `name: targetName`.
newStageDataKeepsName(s, stageData, target, stamp) ==
  [ name         |-> stageData.name,
    loaded       |-> stageData.loaded,
    uri          |-> stageData.uri,
    from_version |-> stageData.from_version,
    rxt_path     |-> stageData.rxt_path,
    tools        |-> stageData.tools,
    active       |-> TRUE,
    created_at   |-> stamp,
    created_by   |-> currentUsername(s),
    rxt          |-> << >> ]

\* newStageData without `active: true`: the item of the panel carries no
\* active flag, and the stored document reads it as false.
newStageDataNoActive(s, stageData, target, stamp) ==
  [ name         |-> target,
    loaded       |-> stageData.loaded,
    uri          |-> stageData.uri,
    from_version |-> stageData.from_version,
    rxt_path     |-> stageData.rxt_path,
    tools        |-> stageData.tools,
    active       |-> FALSE,
    created_at   |-> stamp,
    created_by   |-> currentUsername(s),
    rxt          |-> << >> ]

\* newStageData that marks the copy active only under another name than
\* the source's.
newStageDataOwnNameInactive(s, stageData, target, stamp) ==
  [ name         |-> target,
    loaded       |-> stageData.loaded,
    uri          |-> stageData.uri,
    from_version |-> stageData.from_version,
    rxt_path     |-> stageData.rxt_path,
    tools        |-> stageData.tools,
    active       |-> target # stageData.name,
    created_at   |-> stamp,
    created_by   |-> currentUsername(s),
    rxt          |-> << >> ]

\* PushToModal.handlePush: the newStageData object it submits.  The spread
\* copies the fields of the panel item; rxt is stageData.rxt || "".
newStageData(s, stageData, target, stamp) ==
  [ name         |-> target,
    loaded       |-> stageData.loaded,
    uri          |-> stageData.uri,
    from_version |-> stageData.from_version,
    rxt_path     |-> stageData.rxt_path,
    tools        |-> stageData.tools,
    active       |-> TRUE,
    created_at   |-> stamp,
    created_by   |-> currentUsername(s),
    rxt          |-> << >> ]

\* What the push modal held when OK was pressed (kept with the request).
PushForm(s, target) ==
  [ kind |-> "push", name |-> target, src |-> pushM[s].stageData.src ]

\* PushToModal.handlePush up to its await.
handlePush(s, useNewStageName, newStageName, selectedTargetStageName) ==
  LET target == targetName(useNewStageName, newStageName,
                           selectedTargetStageName)
  IN
  /\ pushM[s].open
  /\ ~pushM[s].loading
  /\ selectedTargetStageName \in pushM[s].existingStageNames \cup {<< >>}
  /\ IF target = << >>
       THEN /\ pushM' = [pushM EXCEPT
                           ![s].error = targetNameError(useNewStageName)]
            /\ UNCHANGED <<clock, net>>
       ELSE /\ clock' = clock + 1
            /\ pushM' = [pushM EXCEPT ![s].loading = TRUE, ![s].error = ""]
            /\ net' = [net EXCEPT ![s] = @ \cup
                         {[cmd       |-> "save_stage_to_mongodb",
                           from      |-> "handlePush",
                           stageData |-> newStageData(s, pushM[s].stageData,
                                                      target, clock + 1),
                           form      |-> PushForm(s, target)]}]
  /\ UNCHANGED <<store, opened, bakeM, revM, last, pre>>
  /\ UNCHANGED <<colls, page, lastQuery>>

\* A handlePush that dispatches push-complete whatever the save answered.
pushEventAlways(ok) == "push-complete"

\* PushToModal.handlePush: what it does with the outcome of the save.
pushEvent(ok) == IF ok THEN "push-complete" ELSE "Failed to push stage"

\* PushToModal.handlePush after its await.
handlePushResume(s, r, ok) ==
  /\ r \in Pending(s, "save_stage_to_mongodb")
  /\ r.from = "handlePush"
  /\ net' = [net EXCEPT ![s] = (@ \ {r}) \cup StagesInvoked(s, ok)]
  /\ page' = StagesRefreshed(s, ok)
  /\ store' = IF ok THEN save_stage_to_mongodb(store, r.stageData)
                    ELSE save_failed(store, r.stageData)
  /\ pre' = store
  /\ last' = [ op |-> "push", session |-> s, ok |-> ok,
               id |-> IF ok THEN Len(store) + 1 ELSE 0,
               src |-> IF ok THEN r.form.src ELSE 0,
               err |-> IF ok THEN "" ELSE "persistence",
               event |-> pushEvent(ok),
               form |-> IF ok THEN r.form ELSE NoForm ]
  /\ pushM' = IF pushEvent(ok) = "push-complete"
                THEN [pushM EXCEPT ![s] = closedPush(@)]
                ELSE [pushM EXCEPT ![s].error = pushEvent(ok),
                                   ![s].loading = FALSE]
  /\ UNCHANGED <<clock, opened, bakeM, revM>>
  /\ UNCHANGED <<colls, lastQuery>>

(***************************************************************************)
(* Revert: RevertModal.svelte                                              *)
(***************************************************************************)
\* The modal is opened with its props; the reactive block calls
\* fetchStageHistory (up to its await) when both props are non-empty.
openRevertModal(s, stageName, stageUri) ==
  /\ NoModal(s)
  /\ opened' = opened + 1
  /\ IF stageName # << >> /\ stageUri # << >>
       THEN /\ revM' = [revM EXCEPT ![s].open = TRUE,
                                    ![s].stageName = stageName,
                                    ![s].stageUri = stageUri,
                                    ![s].loading = TRUE,
                                    ![s].error = ""]
            /\ net' = [net EXCEPT ![s] = @ \cup
                         {[cmd |-> "get_stage_history",
                           stageName |-> stageName, uri |-> stageUri]}]
       ELSE /\ revM' = [revM EXCEPT ![s].open = TRUE,
                                    ![s].stageName = stageName,
                                    ![s].stageUri = stageUri]
            /\ UNCHANGED net
  /\ UNCHANGED <<store, clock, bakeM, pushM, last, pre>>
  /\ UNCHANGED <<colls, page, lastQuery>>

\* RevertModal.fetchStageHistory after its await.
fetchStageHistory(s, r, ok) ==
  /\ r \in Pending(s, "get_stage_history")
  /\ net' = [net EXCEPT ![s] = @ \ {r}]
  /\ revM' = IF ok
               THEN [revM EXCEPT
                       ![s].stageVersions =
                          get_stage_history(store, r.stageName, r.uri),
                       ![s].loading = FALSE]
               ELSE [revM EXCEPT
                       ![s].error = "Failed to fetch stage history",
                       ![s].loading = FALSE]
  /\ UNCHANGED <<store, clock, opened, bakeM, pushM, last, pre>>
  /\ UNCHANGED <<colls, page, lastQuery>>

\* The close event of RevertModal.handleClose, with the reactive block that
\* clears the selection when isOpen is false.
closedRevert(m) ==
  [m EXCEPT !.open = FALSE, !.selectedStageId = 0, !.clicked = 0]

handleClose(s) ==
  /\ revM[s].open
  /\ revM' = [revM EXCEPT ![s] = closedRevert(@)]
  /\ UNCHANGED <<store, clock, opened, net, bakeM, pushM, last, pre>>
  /\ UNCHANGED <<colls, page, lastQuery>>

\* The ids of the entries the modal lists (each entry's click handler is
\* selectStage(version._id)); the list shows once loading is over with no
\* error.
listedVersionIds(s) ==
  IF revM[s].loading \/ revM[s].error # ""
    THEN {}
    ELSE { revM[s].stageVersions[k]._id : k \in DOMAIN revM[s].stageVersions }

\* selectStage that takes the first listed entry whatever entry was clicked.
selectStageFirst(s, stageId) ==
  /\ revM[s].open
  /\ revM' = [revM EXCEPT
                ![s].selectedStageId =
                   IF revM[s].stageVersions = << >>
                     THEN stageId
                     ELSE revM[s].stageVersions[1]._id,
                ![s].clicked = stageId]
  /\ UNCHANGED <<store, clock, opened, net, bakeM, pushM, last, pre>>
  /\ UNCHANGED <<colls, page, lastQuery>>

\* RevertModal.selectStage (`clicked` keeps the entry the user clicked).
selectStage(s, stageId) ==
  /\ revM[s].open
  /\ revM' = [revM EXCEPT ![s].selectedStageId = stageId,
                          ![s].clicked = stageId]
  /\ UNCHANGED <<store, clock, opened, net, bakeM, pushM, last, pre>>
  /\ UNCHANGED <<colls, page, lastQuery>>

\* RevertModal.handleRevert up to its await.
handleRevert(s) ==
  /\ revM[s].open
  /\ ~revM[s].loading
  /\ IF revM[s].selectedStageId = 0
       THEN /\ revM' = [revM EXCEPT ![s].error =
                          "Please select a stage version to revert to"]
            /\ UNCHANGED net
       ELSE /\ net' = [net EXCEPT ![s] = @ \cup
                         {[cmd |-> "revert_stage",
                           stageId |-> revM[s].selectedStageId,
                           form |-> [kind |-> "revert",
                                     clicked |-> revM[s].clicked]]}]
            /\ UNCHANGED revM
  /\ UNCHANGED <<store, clock, opened, bakeM, pushM, last, pre>>
  /\ UNCHANGED <<colls, page, lastQuery>>

\* revertEvent with the dispatch of revert-complete outside the try block.
revertEventAlways(err) == "revert-complete"

\* RevertModal.handleRevert: what it does with the outcome of the command.
revertEvent(err) == IF err = "" THEN "revert-complete" ELSE "Failed to revert stage"

\* The error revert_stage answers with: not-found for an id that identifies
\* no stored document, else none or a persistence failure.
revertErrors(st, stageId) ==
  IF StageFound(st, stageId) THEN {"", "persistence"} ELSE {"not-found"}

\* RevertModal.handleRevert after its await.
handleRevertResume(s, r, err) ==
  /\ r \in Pending(s, "revert_stage")
  /\ err \in revertErrors(store, r.stageId)
  /\ net' = [net EXCEPT ![s] = @ \ {r}]
  /\ store' = IF err = "" THEN revert_stage(store, r.stageId)
                          ELSE revert_failed(store, r.stageId)
  /\ pre' = store
  /\ last' = [ op |-> "revert", session |-> s, ok |-> (err = ""),
               id |-> r.stageId, src |-> 0, err |-> err,
               event |-> revertEvent(err),
               form |-> IF err = "" THEN r.form ELSE NoForm ]
  /\ revM' = IF revertEvent(err) = "revert-complete"
               THEN [revM EXCEPT ![s] = closedRevert(@)]
               ELSE [revM EXCEPT ![s].error = revertEvent(err)]
  /\ UNCHANGED <<clock, opened, bakeM, pushM>>
  /\ UNCHANGED <<colls, page, lastQuery>>

(***************************************************************************)
(* Navigation and listing: +page.svelte                                    *)
(***************************************************************************)
\* fetchPackageCollectionsByUri up to its await.
fetchPackageCollectionsByUri(p) ==
  LET uri == buildCurrentUri(p)
  IN  IF uri = << >>
        THEN [p EXCEPT !.currentUri = uri,
                       !.packageCollections = << >>,
                       !.packages = << >>,
                       !.packageCollectionMessage = noUriSelectedMessage]
        ELSE [p EXCEPT !.currentUri = uri]

BothQueries == {"get_package_collections_by_uri", "get_stages_by_uri"}

\* The page is covered by the overlay of an open modal.
PageFree == NoModal("s1") /\ ~page.packageModalOpen

\* selectOption: the selection, the reset of the selections below it, and
\* the two fetches up to their awaits.
selectOption(dropdownName, option) ==
  /\ PageFree
  /\ \/ /\ dropdownName = "project"
        /\ option \in page.projectOptions
     \/ /\ dropdownName = "modeling"
        /\ page.showModelingCombobox
        /\ option \in page.modelingOptions
     \/ /\ dropdownName = "application"
        /\ page.showApplicationCombobox
        /\ option \in page.applicationOptions
  /\ LET selected ==
           CASE dropdownName = "project" ->
                  [page EXCEPT !.projectSelection = option,
                               !.projectDropdownOpen = FALSE,
                               !.modelingSelection = "select",
                               !.applicationSelection = "select",
                               !.showModelingCombobox = TRUE,
                               !.showApplicationCombobox = FALSE]
             [] dropdownName = "modeling" ->
                  [page EXCEPT !.modelingSelection = option,
                               !.modelingDropdownOpen = FALSE,
                               !.applicationSelection = "select",
                               !.showApplicationCombobox = TRUE]
             [] dropdownName = "application" ->
                  [page EXCEPT !.applicationSelection = option,
                               !.applicationDropdownOpen = FALSE]
     IN  /\ page' = fetchStagesByUri(fetchPackageCollectionsByUri(selected))
         /\ net' = [net EXCEPT !["s1"] = @ \cup Invoked(selected, BothQueries)]
  /\ opened' = opened + 1
  /\ UNCHANGED <<store, clock, bakeM, pushM, revM, last, pre, colls, lastQuery>>

\* refreshPackages: both fetches up to their awaits.
refreshPackages ==
  /\ PageFree
  /\ page' = fetchStagesByUri(fetchPackageCollectionsByUri(page))
  /\ net' = [net EXCEPT !["s1"] = @ \cup Invoked(page, BothQueries)]
  /\ opened' = opened + 1
  /\ UNCHANGED <<store, clock, bakeM, pushM, revM, last, pre, colls, lastQuery>>

\* resetToHome: the selections are reset and currentUri rebuilt; nothing
\* is fetched.
resetToHome ==
  /\ PageFree
  /\ LET home == [page EXCEPT !.projectSelection = "select",
                              !.modelingSelection = "select",
                              !.applicationSelection = "select",
                              !.showModelingCombobox = FALSE,
                              !.showApplicationCombobox = FALSE]
     IN  page' = [home EXCEPT !.currentUri = buildCurrentUri(home)]
  /\ opened' = opened + 1
  /\ UNCHANGED <<store, clock, net, bakeM, pushM, revM, last, pre, colls,
                 lastQuery>>

\* A toggleDropdown that flips the named dropdown and leaves the others.
toggleDropdownOnly(dropdownName) ==
  /\ PageFree
  /\ dropdownName \in {"project", "modeling", "application"}
  /\ page' = [page EXCEPT
       !.projectDropdownOpen =
          IF dropdownName = "project" THEN ~@ ELSE @,
       !.modelingDropdownOpen =
          IF dropdownName = "modeling" THEN ~@ ELSE @,
       !.applicationDropdownOpen =
          IF dropdownName = "application" THEN ~@ ELSE @]
  /\ UNCHANGED <<store, clock, opened, net, bakeM, pushM, revM, last, pre,
                 colls, lastQuery>>

\* toggleDropdown: the named dropdown flips, the other two close.
toggleDropdown(dropdownName) ==
  /\ PageFree
  /\ dropdownName \in {"project", "modeling", "application"}
  /\ page' = [page EXCEPT
       !.projectDropdownOpen =
          dropdownName = "project" /\ ~page.projectDropdownOpen,
       !.modelingDropdownOpen =
          dropdownName = "modeling" /\ ~page.modelingDropdownOpen,
       !.applicationDropdownOpen =
          dropdownName = "application" /\ ~page.applicationDropdownOpen]
  /\ UNCHANGED <<store, clock, opened, net, bakeM, pushM, revM, last, pre,
                 colls, lastQuery>>

\* startAddingOption: the add form of the given type is the active one and
\* every dropdown closes.
startAddingOption(dropdownType) ==
  /\ PageFree
  /\ page' = [page EXCEPT
       !.newOptionText = << >>,
       !.isAddingProjectOption = dropdownType = "project",
       !.isAddingModelingOption = dropdownType = "modeling",
       !.isAddingApplicationOption = dropdownType = "application",
       !.projectDropdownOpen = FALSE,
       !.modelingDropdownOpen = FALSE,
       !.applicationDropdownOpen = FALSE]
  /\ UNCHANGED <<store, clock, opened, net, bakeM, pushM, revM, last, pre,
                 colls, lastQuery>>

\* cancelAddingOption.
cancelAddingOption ==
  /\ PageFree
  /\ page' = [page EXCEPT !.isAddingProjectOption = FALSE,
                          !.isAddingModelingOption = FALSE,
                          !.isAddingApplicationOption = FALSE,
                          !.newOptionText = << >>]
  /\ UNCHANGED <<store, clock, opened, net, bakeM, pushM, revM, last, pre,
                 colls, lastQuery>>

\* The switch of addNewOption for an option text that is not empty: a text
\* already among the options changes nothing; a new one is appended and
\* selected and the add form closes.  The selections below it are left as
\* they are.
optionAdded(p, dropdownType, text) ==
  CASE dropdownType = "project" ->
         IF text \in p.projectOptions
           THEN p
           ELSE [p EXCEPT !.projectOptions = @ \cup {text},
                          !.projectSelection = text,
                          !.isAddingProjectOption = FALSE,
                          !.showModelingCombobox = TRUE]
    [] dropdownType = "modeling" ->
         IF text \in p.modelingOptions
           THEN p
           ELSE [p EXCEPT !.modelingOptions = @ \cup {text},
                          !.modelingSelection = text,
                          !.isAddingModelingOption = FALSE,
                          !.showApplicationCombobox = TRUE]
    [] dropdownType = "application" ->
         IF text \in p.applicationOptions
           THEN p
           ELSE [p EXCEPT !.applicationOptions = @ \cup {text},
                          !.applicationSelection = text,
                          !.isAddingApplicationOption = FALSE]

\* addNewOption with `text` in the input bound to newOptionText: nothing
\* for an empty text; otherwise the switch, the input is cleared and
\* fetchPackageCollectionsByUri runs up to its await.  fetchStagesByUri is
\* not called.
addNewOption(dropdownType, text) ==
  /\ PageFree
  /\ IF text = ""
       THEN /\ page' = [page EXCEPT !.newOptionText = << >>]
            /\ UNCHANGED net
       ELSE LET added == [optionAdded(page, dropdownType, text)
                            EXCEPT !.newOptionText = << >>]
            IN  /\ page' = fetchPackageCollectionsByUri(added)
                /\ net' = [net EXCEPT !["s1"] =
                             @ \cup Invoked(added,
                                      {"get_package_collections_by_uri"})]
  /\ opened' = opened + 1
  /\ UNCHANGED <<store, clock, bakeM, pushM, revM, last, pre, colls, lastQuery>>

\* The item of the Package Collections panel made from a collection.
PackageItem(collection) ==
  [version |-> collection.version, uri |-> collection.uri]

\* The documents a listing returns, each with its _id.
Returned(docs, ids) ==
  [k \in DOMAIN ids |-> [_id |-> ids[k]] @@ docs[ids[k]]]

\* fetchPackageCollectionsByUri after its await.  outcome "ok": the command
\* answers success, with the collections when there are any; "failure": it
\* answers success = false; "throw": invoke rejects.
fetchPackageCollectionsByUriResume(r, outcome) ==
  /\ r \in Pending("s1", "get_package_collections_by_uri")
  /\ net' = [net EXCEPT !["s1"] = @ \ {r}]
  /\ LET ids == get_package_collections_by_uri(colls, r.uri)
     IN  /\ page' =
               IF outcome = "ok"
                 THEN IF ids # << >>
                        THEN [page EXCEPT
                                !.packageCollections = Returned(colls, ids),
                                !.packages =
                                   [k \in DOMAIN ids |->
                                      PackageItem(colls[ids[k]])],
                                !.packageCollectionMessage = NoMessage]
                        ELSE [page EXCEPT
                                !.packageCollections = << >>,
                                !.packages = << >>,
                                !.packageCollectionMessage =
                                   <<"no collection found in ",
                                     page.currentUri>>]
                 ELSE [page EXCEPT
                         !.packageCollectionMessage = <<"Error: ", outcome>>]
         /\ lastQuery' =
               [cmd |-> r.cmd, uri |-> r.uri, arg |-> "", ok |-> outcome = "ok",
                ids |-> IF outcome = "ok" THEN ids ELSE << >>,
                size |-> Len(colls)]
  /\ UNCHANGED <<store, clock, opened, bakeM, pushM, revM, last, pre, colls>>

\* fetchStagesByUri after its await: the command answers with the stage
\* documents ("ok"), or invoke rejects ("throw").
fetchStagesByUriResume(r, outcome) ==
  /\ r \in Pending("s1", "get_stages_by_uri")
  /\ net' = [net EXCEPT !["s1"] = @ \ {r}]
  /\ LET stagesData == get_stages_by_uri(store, r.uri)
     IN  /\ page' =
               IF outcome = "ok"
                 THEN IF stagesData # << >>
                        THEN [page EXCEPT
                                !.stages =
                                   [k \in DOMAIN stagesData |->
                                      StageItem(store, stagesData[k])],
                                !.stageMessage = NoMessage]
                        ELSE [page EXCEPT
                                !.stages = << >>,
                                !.stageMessage =
                                   <<"No stages found for ",
                                     page.currentUri>>]
                 ELSE [page EXCEPT
                         !.stages = << >>,
                         !.stageMessage = <<"Error: ", outcome>>]
         /\ lastQuery' =
               [cmd |-> r.cmd, uri |-> r.uri, arg |-> "", ok |-> outcome = "ok",
                ids |-> IF outcome = "ok" THEN stagesData ELSE << >>,
                size |-> Len(store)]
  /\ UNCHANGED <<store, clock, opened, bakeM, pushM, revM, last, pre, colls>>

(***************************************************************************)
(* Package collections: +page.svelte and PackageModal.svelte               *)
(***************************************************************************)
\* createNewPackage.
createNewPackage ==
  /\ PageFree
  /\ page' = [page EXCEPT !.packageModalOpen = TRUE]
  /\ UNCHANGED <<store, clock, opened, net, bakeM, pushM, revM, last, pre,
                 colls, lastQuery>>

\* Array.prototype.find(pkg => pkg.version === packageVersion): the first
\* match, NoCollection when there is none.
find(packageCollections, packageVersion) ==
  LET matches == { k \in DOMAIN packageCollections :
                     packageCollections[k].version = packageVersion }
  IN  IF matches = {}
        THEN NoCollection
        ELSE packageCollections[CHOOSE k \in matches :
                                  \A l \in matches : k <= l]

\* createFromPackage, called with the version of a listed item.
createFromPackage(packageVersion) ==
  /\ PageFree
  /\ \E k \in DOMAIN page.packages : page.packages[k].version = packageVersion
  /\ LET packageToCreateFrom == find(page.packageCollections, packageVersion)
     IN  page' = IF packageToCreateFrom # NoCollection
                   THEN [page EXCEPT !.currentPackageData = packageToCreateFrom,
                                     !.isEditingPackage = TRUE,
                                     !.packageModalOpen = TRUE]
                   ELSE page
  /\ UNCHANGED <<store, clock, opened, net, bakeM, pushM, revM, last, pre,
                 colls, lastQuery>>

\* closePackageModal.
closedPackageModal(p) ==
  [p EXCEPT !.packageModalOpen = FALSE,
            !.isEditingPackage = FALSE,
            !.currentPackageData = NoCollection]

closePackageModal ==
  /\ page.packageModalOpen
  /\ page' = closedPackageModal(page)
  /\ UNCHANGED <<store, clock, opened, net, bakeM, pushM, revM, last, pre,
                 colls, lastQuery>>

\* PackageModal.initFormData / resetForm and handleSubmit: the submitData of
\* a form whose version field holds `version`, the other fields being as the
\* form was seeded.
submitData(packageData, version) ==
  [ version      |-> version,
    packages     |-> IF packageData # NoCollection
                       THEN packageData.packages ELSE << >>,
    herit        |-> IF packageData # NoCollection
                       THEN packageData.herit ELSE "",
    tools        |-> IF packageData # NoCollection
                       THEN packageData.tools ELSE << >>,
    originalData |-> packageData ]

\* handlePackageSubmit: the newPackage object made from event.detail.
newPackage(detail, uri, stamp) ==
  [ version      |-> detail.version,
    packages     |-> detail.packages,
    herit        |-> detail.herit,
    tools        |-> detail.tools,
    originalData |-> detail.originalData,
    created_at   |-> stamp,
    created_by   |-> currentUsername("s1"),
    uri          |-> uri ]

\* handlePackageSubmit without the check of the URI.
handlePackageSubmitAnyUri(version) ==
  /\ page.packageModalOpen
  /\ IF version = ""
       THEN UNCHANGED <<clock, net, page, opened>>
       ELSE /\ opened' = opened + 1
            /\ page' = closedPackageModal(page)
            /\ clock' = clock + 1
            /\ net' = [net EXCEPT !["s1"] = @ \cup
                 {[cmd |-> "save_package_collection",
                   packageData |->
                     newPackage(submitData(page.currentPackageData, version),
                                buildCurrentUri(page), clock + 1)]}]
  /\ UNCHANGED <<store, bakeM, pushM, revM, last, pre, colls, lastQuery>>

\* PackageModal.handleSubmit: the validation of the version, then the submit
\* event, which runs handlePackageSubmit up to its await, then the close
\* event, which runs closePackageModal.
handlePackageSubmit(version) ==
  /\ page.packageModalOpen
  /\ IF version = ""
       THEN UNCHANGED <<clock, net, page, opened>>
       ELSE LET uri == buildCurrentUri(page)
            IN  /\ opened' = opened + 1
                /\ page' = [closedPackageModal(page)
                             EXCEPT !.submitRejected = uri = << >>]
                /\ IF uri = << >>
                     THEN UNCHANGED <<clock, net>>
                     ELSE /\ clock' = clock + 1
                          /\ net' = [net EXCEPT !["s1"] = @ \cup
                               {[cmd |-> "save_package_collection",
                                 packageData |->
                                   newPackage(submitData(
                                                page.currentPackageData,
                                                version),
                                              uri, clock + 1)]}]
  /\ UNCHANGED <<store, bakeM, pushM, revM, last, pre, colls, lastQuery>>

\* handlePackageSubmit after its await: on success the item appended to the
\* panel (without uri), the modal state reset and
\* fetchPackageCollectionsByUri up to its await; on failure only a log.
\* `fails`: the store is unreachable.
handlePackageSubmitResume(r, fails) ==
  /\ r \in Pending("s1", "save_package_collection")
  /\ LET result == IF fails
                     THEN save_collection_failed(colls, r.packageData)
                     ELSE save_package_collection(colls, r.packageData)
         saved == closedPackageModal(
                    [page EXCEPT !.packages =
                       Append(@, [version |-> r.packageData.version,
                                  uri |-> << >>])])
     IN  /\ colls' = result.collections
         /\ lastQuery' =
               [cmd |-> r.cmd, uri |-> r.packageData.uri,
                arg |-> r.packageData.version, ok |-> result.error = "",
                ids |-> IF result.error = "" THEN <<Len(colls) + 1>>
                                             ELSE << >>,
                size |-> Len(colls)]
         /\ IF result.error = ""
              THEN /\ page' = fetchPackageCollectionsByUri(saved)
                   /\ net' = [net EXCEPT !["s1"] =
                                (@ \ {r}) \cup
                                Invoked(saved,
                                        {"get_package_collections_by_uri"})]
              ELSE /\ page' = page
                   /\ net' = [net EXCEPT !["s1"] = @ \ {r}]
  /\ UNCHANGED <<store, clock, opened, bakeM, pushM, revM, last, pre>>

(***************************************************************************)
(* Selecting a panel item: +page.svelte                                    *)
(***************************************************************************)
\* { ...item, active: value }
withActive(item, value) ==
  [f \in DOMAIN item \cup {"active"} |->
     IF f = "active" THEN value ELSE item[f]]

\* class:active-item={item.active}: the items the fetches build carry no
\* active property.
isActiveItem(item) == "active" \in DOMAIN item /\ item.active

\* The tools list for the tools a collection or a stage item carries.
toolsOf(itemTools) ==
  IF itemTools # << >> THEN itemTools ELSE <<"No tools for the selection">>

\* fetchToolsForPackage: the tools of the listed collection with the
\* version, nothing when there is none.
fetchToolsForPackage(p, packageVersion) ==
  LET found == { k \in DOMAIN p.packageCollections :
                   p.packageCollections[k].version = packageVersion }
  IN  IF found = {}
        THEN p
        ELSE [p EXCEPT !.tools =
                toolsOf(p.packageCollections[
                          CHOOSE k \in found : \A j \in found : k <= j].tools)]

\* handleStageClick that leaves activePackage as it is.
stageClickedKeepsPackage(p, item) ==
  [p EXCEPT
     !.stages = [k \in DOMAIN @ |-> withActive(@[k], @[k].name = item.name)],
     !.packages = [k \in DOMAIN @ |-> withActive(@[k], FALSE)],
     !.activeStage = item.name,
     !.tools = toolsOf(item.tools)]

\* The page after handlePackageClick(item).
packageClicked(p, item) ==
  fetchToolsForPackage(
    [p EXCEPT
       !.activeStage = << >>,
       !.packages =
          [k \in DOMAIN @ |-> withActive(@[k], @[k].version = item.version)],
       !.stages = [k \in DOMAIN @ |-> withActive(@[k], FALSE)],
       !.activePackage = item.version],
    item.version)

\* The page after handleStageClick(item), fetchToolsForStage included.
stageClicked(p, item) ==
  [p EXCEPT
     !.activePackage = "",
     !.stages = [k \in DOMAIN @ |-> withActive(@[k], @[k].name = item.name)],
     !.packages = [k \in DOMAIN @ |-> withActive(@[k], FALSE)],
     !.activeStage = item.name,
     !.tools = toolsOf(item.tools)]

\* A click on a listed package collection.
handlePackageClick(item) ==
  /\ PageFree
  /\ \E k \in DOMAIN page.packages : page.packages[k] = item
  /\ page' = packageClicked(page, item)
  /\ UNCHANGED <<store, clock, opened, net, bakeM, pushM, revM, last, pre,
                 colls, lastQuery>>

\* A click on a listed stage.
handleStageClick(item) ==
  /\ PageFree
  /\ \E k \in DOMAIN page.stages : page.stages[k] = item
  /\ page' = stageClicked(page, item)
  /\ UNCHANGED <<store, clock, opened, net, bakeM, pushM, revM, last, pre,
                 colls, lastQuery>>

(***************************************************************************)
(* The buttons of the Stages panel: SectionPanel.svelte and +page.svelte   *)
(***************************************************************************)
\* The Revert button of a listed stage calls onRevert(item.name), which the
\* page binds to revertStage: it writes a log entry and invokes nothing
\* (the call of revert_stage in it is commented out, and no component
\* mounts RevertModal).
revertStage(stageName) ==
  /\ PageFree
  /\ \E k \in DOMAIN page.stages : page.stages[k].name = stageName
  /\ page' = [page EXCEPT !.reverting = stageName]
  /\ UNCHANGED <<store, clock, opened, net, bakeM, pushM, revM, last, pre,
                 colls, lastQuery>>

\* SectionPanel, panel-content: the list of items when there are any, the
\* empty message otherwise.
PanelContent(items, emptyMessage) ==
  IF Len(items) > 0 THEN [list |-> items] ELSE [message |-> emptyMessage]

\* What the Stages and the Package Collections panels show for a page.
StagesPanel(p) == PanelContent(p.stages, p.stageMessage)

PackagesPanel(p) == PanelContent(p.packages, p.packageCollectionMessage)

\* The panel shows a message, and it is an error message.
ShowsError(content) ==
  /\ "message" \in DOMAIN content
  /\ content.message # NoMessage
  /\ Head(content.message) = "Error: "

\* The panel shows a message saying that nothing was found.
ShowsNoItems(content) ==
  /\ "message" \in DOMAIN content
  /\ content.message # NoMessage
  /\ Head(content.message) \in {"No stages found for ",
                                "no collection found in "}

(***************************************************************************)
(* Specifications                                                          *)
(***************************************************************************)
Requests == UNION { net[t] : t \in Sessions }

StageNames == { <<"d">>, <<"q">> }

\* The steps of the bake flow for the sessions SS, which start at most `max`
\* operations, with the panel items and the form contents users choose from;
\* `oks` are the outcomes commands have (TRUE: the command succeeds).
BakeSteps(SS, oks, max, items, bakeNames, lists, inputs) ==
  \/ \E s \in SS, item \in items : opened < max /\ openBakeModal(s, item)
  \/ \E s \in SS, r \in Requests, ok \in oks :
       openBakeModalResume(s, r, ok)
  \/ \E s \in SS : closeBakeModal(s)
  \/ \E s \in SS, bakeName \in bakeNames, envVars \in lists,
        input \in inputs :
       clock < max /\ handleSubmit(s, bakeName, envVars, input)
  \/ \E s \in SS, r \in Requests, ok \in oks :
       handleBakeSubmit(s, r, ok)

\* The steps of the push flow.
PushSteps(SS, oks, max, typed) ==
  \/ \E s \in SS, id \in DOMAIN store :
       opened < max /\ openPushToModal(s, id)
  \/ \E s \in SS, r \in Requests, ok \in oks :
       fetchInitialData(s, r, ok)
  \/ \E s \in SS : closePushToModal(s)
  \/ \E s \in SS, useNew \in BOOLEAN, newName \in typed,
        selected \in StageNames \cup {<< >>} :
       clock < max /\ handlePush(s, useNew, newName, selected)
  \/ \E s \in SS, r \in Requests, ok \in oks :
       handlePushResume(s, r, ok)

\* The steps of the revert flow: the modal is opened for a stage of the
\* Stages panel, and a version is selected by a click on a listed entry.
RevertSteps(SS, oks, max) ==
  \/ \E s \in SS, id \in DOMAIN store :
       /\ opened < max
       /\ id \in Listed(store)
       /\ openRevertModal(s, store[id].name, store[id].uri)
  \/ \E s \in SS, r \in Requests, ok \in oks :
       fetchStageHistory(s, r, ok)
  \/ \E s \in SS : handleClose(s)
  \/ \E s \in SS, stageId \in DOMAIN store :
       stageId \in listedVersionIds(s) /\ selectStage(s, stageId)
  \/ \E s \in SS : handleRevert(s)
  \/ \E s \in SS, r \in Requests,
        err \in {"", "persistence", "not-found"} :
       (err = "" \/ FALSE \in oks) /\
       handleRevertResume(s, r, err)

OneItem == { item \in PackageItems : item.uri # << >> }

OneList == { << [key |-> <<"K">>, value |-> <<"1">>] >> }

OneInput == { << << >>, <<"2">> >> }

\* One session, the three operations, from an empty store.
Next ==
  \/ BakeSteps({"s1"}, BOOLEAN, MaxOps, OneItem, TypedBakeNames, OneList, OneInput)
  \/ PushSteps({"s1"}, BOOLEAN, MaxOps, TypedNames)
  \/ RevertSteps({"s1"}, BOOLEAN, MaxOps)

Spec == Init /\ [][Next]_vars

\* One session, bakes only, with every panel item and form content.
NextBake ==
  BakeSteps({"s1"}, BOOLEAN, MaxOps, PackageItems, {<< >>, <<"d">>}, EnvVarLists,
            EnvInputs)

SpecBake == Init /\ [][NextBake]_vars

\* A stored version as a bake leaves it.
SeedDoc(active) ==
  [ name                  |-> <<"d">>,
    uri                   |-> UriProj,
    from_version          |-> "1.0.0",
    rxt                   |-> RxtOf("1.0.0"),
    tools                 |-> <<"maya">>,
    environment_variables |-> << >>,
    created_at            |-> 0,
    created_by            |-> "alice",
    active                |-> active ]

\* The stores two sessions find when they start: empty, or one stage with one
\* or two versions, the later one active.
SeedStores ==
  { << >>, << SeedDoc(TRUE) >>, << SeedDoc(FALSE), SeedDoc(TRUE) >> }

InitRace ==
  /\ store \in SeedStores
  /\ clock = 0
  /\ opened = 0
  /\ net = [s \in Sessions |-> {}]
  /\ bakeM = [s \in Sessions |-> ClosedBake]
  /\ pushM = [s \in Sessions |-> ClosedPush]
  /\ revM = [s \in Sessions |-> ClosedRevert]
  /\ last = NoCommand
  /\ pre = store
  /\ colls = SeedCollections
  /\ page = initApp(SeedCollections)
  /\ lastQuery = NoQuery

\* Two sessions side by side on one store, every command succeeding (a
\* failed command writes nothing).
NextRace ==
  \/ BakeSteps(Sessions, {TRUE}, MaxRaceOps, OneItem, {<<"d">>}, OneList, OneInput)
  \/ PushSteps(Sessions, {TRUE}, MaxRaceOps, {<<"d">>, <<SP, "q">>})
  \/ RevertSteps(Sessions, {TRUE}, MaxRaceOps)

SpecRace == InitRace /\ [][NextRace]_vars

\* A revert_stage command issued for any id: selectStage is called with an
\* id that need not be one of the listed entries.
NextCmd ==
  \/ RevertSteps({"s1"}, BOOLEAN, MaxOps)
  \/ \E stageId \in (1..(MaxOps + 1)) \ DOMAIN store :
       selectStage("s1", stageId)

SpecCmd == InitRace /\ [][NextCmd]_vars

\* A stored stage version with a name and a URI of its own.
SeedStage(name, uri) == [SeedDoc(TRUE) EXCEPT !.name = name, !.uri = uri]

\* The page on a store with stages under a project and under a type of it.
InitPage ==
  /\ store = << SeedStage(<<"d">>, UriProj), SeedStage(<<"q">>, UriChar) >>
  /\ clock = 0
  /\ opened = 0
  /\ net = [s \in Sessions |-> {}]
  /\ bakeM = [s \in Sessions |-> ClosedBake]
  /\ pushM = [s \in Sessions |-> ClosedPush]
  /\ revM = [s \in Sessions |-> ClosedRevert]
  /\ last = NoCommand
  /\ pre = store
  /\ colls = SeedCollections
  /\ page = initApp(SeedCollections)
  /\ lastQuery = NoQuery

QueryOutcomes == {"ok", "failure", "throw"}

\* The steps of navigation and listing.
ListingSteps(max) ==
  \/ \E dropdownName \in {"project", "modeling", "application"},
        option \in {"select", "proj", "char", "maya"} :
       opened < max /\ selectOption(dropdownName, option)
  \/ opened < max /\ refreshPackages
  \/ opened < max /\ resetToHome
  \/ \E r \in Requests, outcome \in QueryOutcomes :
       fetchPackageCollectionsByUriResume(r, outcome)
  \/ \E r \in Requests, outcome \in {"ok", "throw"} :
       fetchStagesByUriResume(r, outcome)

\* The texts typed into the version field of the package form.
TypedVersions == {"", "1.0.0", "2.0.0"}

\* The steps of the package form.
PackageSteps(max, versions) ==
  \/ createNewPackage
  \/ \E packageVersion \in versions : createFromPackage(packageVersion)
  \/ closePackageModal
  \/ \E version \in versions :
       opened < max /\ clock < max /\ handlePackageSubmit(version)
  \/ \E r \in Requests, fails \in BOOLEAN :
       handlePackageSubmitResume(r, fails)

NextPage ==
  \/ ListingSteps(MaxPageOps)
  \/ PackageSteps(MaxPageOps, TypedVersions)

SpecPage == InitPage /\ [][NextPage]_vars

\* The texts typed into the key and the value input of the bake form.
TypedKeys == { << >>, <<"K">>, <<SP, "K">>, <<"L">> }

TypedValues == { <<"1">>, <<"2", SP>> }

\* One session baking with the environment variable list that the clicks
\* on Add and on the remove buttons build.
NextEnv ==
  \/ \E item \in OneItem : opened < MaxEnvOps /\ openBakeModal("s1", item)
  \/ \E r \in Requests : openBakeModalResume("s1", r, TRUE)
  \/ closeBakeModal("s1")
  \/ \E currentEnvKey \in TypedKeys, currentEnvValue \in TypedValues :
       clickAddEnvVar("s1", currentEnvKey, currentEnvValue)
  \/ \E index \in 1..Cardinality(TypedKeys) : clickRemoveEnvVar("s1", index)
  \/ \E bakeName \in {<< >>, <<"d">>}, input \in EnvInputs :
       clock < MaxEnvOps /\
       handleSubmit("s1", bakeName, bakeM["s1"].envVars, input)
  \/ \E r \in Requests, ok \in BOOLEAN : handleBakeSubmit("s1", r, ok)

SpecEnv == Init /\ [][NextEnv]_vars

\* The page on a store that holds two versions of stage d, the older one
\* inactive.
InitStages ==
  /\ store = << [SeedDoc(FALSE) EXCEPT !.from_version = "0.9.0"],
                SeedDoc(TRUE) >>
  /\ clock = 0
  /\ opened = 0
  /\ net = [s \in Sessions |-> {}]
  /\ bakeM = [s \in Sessions |-> ClosedBake]
  /\ pushM = [s \in Sessions |-> ClosedPush]
  /\ revM = [s \in Sessions |-> ClosedRevert]
  /\ last = NoCommand
  /\ pre = store
  /\ colls = SeedCollections
  /\ page = initApp(SeedCollections)
  /\ lastQuery = NoQuery

\* Navigation, listing and the Revert button of the Stages panel.
NextStages ==
  \/ ListingSteps(MaxPageOps)
  \/ \E stageName \in StageNames : revertStage(stageName)

\* The backend eventually answers every query; users are not bound to do
\* anything.
SpecStages ==
  /\ InitStages
  /\ [][NextStages]_vars
  /\ WF_vars(\E r \in Requests, outcome \in QueryOutcomes :
               \/ fetchPackageCollectionsByUriResume(r, outcome)
               \/ fetchStagesByUriResume(r, outcome))

\* The controls of the breadcrumb as the template renders them: a dropdown
\* button where its add form is not shown, the items of a dropdown while it
\* is open, an add form while its flag is set; the modeling and application
\* controls only while their comboboxes are shown.
Rendered(dropdownName) ==
  CASE dropdownName = "project" -> TRUE
    [] dropdownName = "modeling" -> page.showModelingCombobox
    [] dropdownName = "application" -> page.showApplicationCombobox

IsAdding(dropdownName) ==
  CASE dropdownName = "project" -> page.isAddingProjectOption
    [] dropdownName = "modeling" -> page.isAddingModelingOption
    [] dropdownName = "application" -> page.isAddingApplicationOption

DropdownOpen(dropdownName) ==
  CASE dropdownName = "project" -> page.projectDropdownOpen
    [] dropdownName = "modeling" -> page.modelingDropdownOpen
    [] dropdownName = "application" -> page.applicationDropdownOpen

Dropdowns == {"project", "modeling", "application"}

\* The texts typed into the input of an add form: none, and one that is a
\* stored modeling type but neither a project nor an application.
TypedOptions == {"", "char"}

NavigationSteps(max) ==
  \/ \E d \in Dropdowns :
       Rendered(d) /\ ~IsAdding(d) /\ toggleDropdown(d)
  \/ \E d \in Dropdowns, option \in {"select", "proj", "char", "maya"} :
       /\ opened < max
       /\ Rendered(d) /\ ~IsAdding(d) /\ DropdownOpen(d)
       /\ selectOption(d, option)
  \/ \E d \in Dropdowns :
       /\ Rendered(d) /\ ~IsAdding(d) /\ DropdownOpen(d)
       /\ startAddingOption(d)
  \/ (\E d \in Dropdowns : Rendered(d) /\ IsAdding(d)) /\ cancelAddingOption
  \/ \E d \in Dropdowns, text \in TypedOptions :
       opened < max /\ Rendered(d) /\ IsAdding(d) /\ addNewOption(d, text)
  \/ opened < max /\ refreshPackages
  \/ opened < max /\ resetToHome
  \/ \E r \in Requests : fetchPackageCollectionsByUriResume(r, "ok")
  \/ \E r \in Requests : fetchStagesByUriResume(r, "ok")

NextNav == NavigationSteps(MaxNavOps)

SpecNav == InitPage /\ [][NextNav]_vars

\* Selections of stored options and refreshes, each starting both fetches,
\* which are all answered with success, in any order.
FetchSteps(max) ==
  \/ \E dropdownName \in Dropdowns,
        option \in {"proj", "char", "maya"} :
       opened < max /\ selectOption(dropdownName, option)
  \/ opened < max /\ refreshPackages
  \/ \E r \in Requests : fetchPackageCollectionsByUriResume(r, "ok")
  \/ \E r \in Requests : fetchStagesByUriResume(r, "ok")

NextFetch == FetchSteps(MaxPageOps)

SpecFetch == InitPage /\ [][NextFetch]_vars

\* The revert modal opened with every value of its props, the empty ones
\* included; get_stage_history answers or fails.
HistorySteps(max) ==
  \/ \E stageName \in {<< >>, <<"d">>}, stageUri \in {<< >>, UriProj} :
       opened < max /\ openRevertModal("s1", stageName, stageUri)
  \/ \E r \in Requests, ok \in BOOLEAN : fetchStageHistory("s1", r, ok)
  \/ handleClose("s1")
  \/ \E stageId \in DOMAIN store :
       stageId \in listedVersionIds("s1") /\ selectStage("s1", stageId)

NextHistory == HistorySteps(MaxOps)

\* The backend eventually answers every get_stage_history; users are not
\* bound to do anything.
SpecHistory ==
  /\ InitRace
  /\ [][NextHistory]_vars
  /\ WF_vars(\E r \in Requests, ok \in BOOLEAN : fetchStageHistory("s1", r, ok))

\* The items of a list.
Items(list) == { list[k] : k \in DOMAIN list }

\* Navigation with every fetch answered, and clicks on the listed items.
NextSelect ==
  \/ FetchSteps(MaxPageOps)
  \/ \E item \in Items(page.packages) : handlePackageClick(item)
  \/ \E item \in Items(page.stages) : handleStageClick(item)

SpecSelect == InitPage /\ [][NextSelect]_vars

(***************************************************************************)
(* Properties                                                              *)
(***************************************************************************)
\* The stored documents named `name` that are active.
ActiveIds(st, name) == { i \in DOMAIN st : st[i].name = name /\ st[i].active }

\* The stored documents named `name`.
NamedIds(st, name) == { i \in DOMAIN st : st[i].name = name }

\* A write command the session has issued and the command layer has not yet
\* executed, aimed at the stage `name`.
PendingWriteOn(s, name) ==
  \E r \in net[s] :
    \/ r.cmd = "save_stage_to_mongodb" /\ r.stageData.name = name
    \/ /\ r.cmd = "revert_stage"
       /\ r.stageId \in DOMAIN store
       /\ store[r.stageId].name = name

\* C1: for every stage name that has a stored document (a name that was
\* baked or pushed to), exactly one stored document of that name is active,
\* after any sequence of Bake, Push and Revert operations; a name has no
\* active document only while it has no document at all.
C1_ExactlyOneActivePerName ==
  \A i \in DOMAIN store : Cardinality(ActiveIds(store, store[i].name)) = 1

\* C1 witness: a stage with several versions, an earlier one made active
\* again by a Revert after the bakes and pushes that made the later ones.
C1_Witness ==
  /\ last.op = "revert" /\ last.ok
  /\ Cardinality(NamedIds(store, store[last.id].name)) >= 2
  /\ last.id < Len(store)
  /\ ActiveIds(store, store[last.id].name) = {last.id}

\* C2: with two sessions issuing Bake, Push and Revert on one store, in no
\* reachable state (the states between a session's request and its execution
\* included) does a stage name have two active documents, and none has a
\* document without having an active one.
C2_RaceKeepsOneActive ==
  /\ \A i, j \in DOMAIN store :
       (store[i].name = store[j].name /\ store[i].active /\ store[j].active)
         => i = j
  /\ \A i \in DOMAIN store : ActiveIds(store, store[i].name) # {}

\* C2 witness: a write of one session on a stage has been executed while a
\* write of the other session on the same stage is still pending.
C2_Witness ==
  /\ last.ok /\ last.session = "s1" /\ last.op \in {"bake", "push"}
  /\ PendingWriteOn("s2", store[last.id].name)
  /\ Cardinality(NamedIds(store, store[last.id].name)) >= 2

\* A document but for its active flag.
Inactive(d) == [d EXCEPT !.active = FALSE]

C4_RevertMakesSelectedActive ==
  (last.op = "revert" /\ last.ok) =>
    LET X == last.form.clicked
        history == get_stage_history(store, store[X].name, store[X].uri)
    IN  /\ \E k \in DOMAIN history : history[k]._id = X
        /\ \A k \in DOMAIN history :
             history[k].active <=> (history[k]._id = X)
        /\ ActiveIds(store, store[X].name) = {X}

\* C4 witness: a Revert has succeeded on a version that was not the active
\* one before.
C4_Witness ==
  /\ last.op = "revert" /\ last.ok
  /\ ~pre[last.id].active
  /\ \E i \in DOMAIN pre : pre[i].active /\ pre[i].name = pre[last.id].name

\* C5: a Revert, successful or not, stores no new document and changes no
\* field but active: the documents before and after are the same ones, with
\* the same name, uri, from_version, rxt, tools, environment_variables,
\* created_at and created_by.
C5_RevertChangesOnlyActive ==
  (last.op = "revert") =>
    /\ Len(store) = Len(pre)
    /\ \A i \in DOMAIN pre :
         [store[i] EXCEPT !.active = pre[i].active] = pre[i]

\* C5 witness: a successful Revert that has flipped active flags.
C5_Witness ==
  /\ last.op = "revert" /\ last.ok
  /\ \E i \in DOMAIN pre : store[i].active # pre[i].active

\* C6, as the specification states it: a successful Push of the stage S to
\* the name N adds exactly one document named N, active, stamped with the
\* session's user, whose version, tools, environment variables and rxt are
\* those of S's stored document, and deactivates the prior documents of N.
C6_PushCopiesConfiguration ==
  (last.op = "push" /\ last.ok) =>
    /\ Len(store) = Len(pre) + 1
    /\ store[last.id].name = last.form.name
    /\ store[last.id].active
    /\ store[last.id].created_by = currentUsername(last.session)
    /\ store[last.id].from_version = pre[last.src].from_version
    /\ store[last.id].tools = pre[last.src].tools
    /\ store[last.id].rxt = pre[last.src].rxt
    /\ store[last.id].environment_variables =
         pre[last.src].environment_variables
    /\ \A i \in DOMAIN pre : pre[i].name = last.form.name => ~store[i].active

\* C7, as the specification states it: a successful Push leaves the source
\* document as it was in every field, active included, whatever the target.
C7_PushLeavesSourceUntouched ==
  (last.op = "push" /\ last.ok) => store[last.src] = pre[last.src]

\* C7, amended: a successful Push changes no field of the source document
\* other than active, and not even active when the target name differs
\* from the source's name; a Push to the source's own name leaves the source
\* inactive.
C7_PushLeavesSourceButActive ==
  (last.op = "push" /\ last.ok) =>
    /\ [store[last.src] EXCEPT !.active = pre[last.src].active] = pre[last.src]
    /\ last.form.name # pre[last.src].name => store[last.src] = pre[last.src]
    /\ last.form.name = pre[last.src].name => ~store[last.src].active

\* C7 witness: a Push of an active stage to its own name has succeeded, and
\* the source document is no longer active.
C7_Witness ==
  /\ last.op = "push" /\ last.ok
  /\ last.form.name = pre[last.src].name
  /\ pre[last.src].active /\ ~store[last.src].active

\* C8: a submit of the bake form with an empty name shows the alert and
\* issues no save_stage_to_mongodb request (no submit event reaches
\* handleBakeSubmit), and the stored documents stay as they are.
C8_EmptyBakeNameRejected ==
  [][ \A s \in Sessions, envVars \in EnvVarLists, input \in EnvInputs :
        handleSubmit(s, << >>, envVars, input) =>
          /\ net' = net
          /\ store' = store
          /\ bakeM'[s].open /\ bakeM'[s].alerted ]_vars

\* C8 witness: the bake form has been submitted with an empty name while a
\* stage was already stored.
C8_Witness ==
  /\ bakeM["s1"].open /\ bakeM["s1"].alerted
  /\ store # << >>

\* A text with no character other than white space.
Blank(str) == \A k \in DOMAIN str : str[k] = SP

\* C9: OK pressed in the push modal with no target name (nothing selected in
\* existing-stage mode; an empty or white-space name in new-stage mode) sets
\* the validation error and issues no save_stage_to_mongodb request, and the
\* stored documents stay as they are.
C9_EmptyPushTargetRejected ==
  [][ \A s \in Sessions, useNew \in BOOLEAN, newName \in TypedNames :
        ( /\ handlePush(s, useNew, newName, << >>)
          /\ useNew => Blank(newName) ) =>
          /\ net' = net
          /\ store' = store
          /\ pushM'[s].error = IF useNew
                                 THEN "Please enter a name for the new stage."
                                 ELSE "Please select a target stage name." ]_vars

\* C9 witness: the push modal shows the validation error of the new-stage
\* mode.
C9_Witness ==
  /\ pushM["s1"].open
  /\ pushM["s1"].error = "Please enter a name for the new stage."

\* C10: a Revert whose stageId identifies no stored document is answered
\* with not-found, is not reported as complete, and leaves every stored
\* document, active flags included, as it was.
C10_RevertUnknownIdNotFound ==
  (last.op = "revert" /\ ~StageFound(pre, last.id)) =>
    /\ last.err = "not-found"
    /\ ~last.ok
    /\ last.event # "revert-complete"
    /\ store = pre

\* C10 witness: a Revert of an id that identifies no document has been
\* answered, on a store that holds documents.
C10_Witness ==
  /\ last.op = "revert"
  /\ last.id \notin DOMAIN store
  /\ last.err = "not-found"
  /\ store # << >>

\* C11: when the write command of a Bake, Push or Revert fails, the store is
\* the one the command found: no new document beside a still active sibling,
\* no deactivated siblings without an active document of their name; the
\* failure is answered with an error.
C11_FailedWriteLeavesStore ==
  (last.op \in {"bake", "push", "revert"} /\ ~last.ok) =>
    /\ store = pre
    /\ last.err # ""
    /\ \A i \in DOMAIN store :
         Cardinality(ActiveIds(store, store[i].name)) = 1

\* C11 witness: the save of a Push has failed on a store that holds an active
\* document.
C11_Witness ==
  /\ last.op = "push" /\ ~last.ok
  /\ \E i \in DOMAIN store : store[i].active

\* C12: the stored history is append-only: no step removes a document, and
\* no step changes a field of a stored document other than active (name,
\* uri, from_version, rxt, tools, environment_variables, created_at and
\* created_by stay as they were stored).
C12_HistoryAppendOnly ==
  [][ /\ Len(store') >= Len(store)
      /\ \A i \in DOMAIN store :
           [store'[i] EXCEPT !.active = store[i].active] = store[i] ]_vars

\* C12 witness: three documents are stored, after bakes or pushes to a name
\* that already had a document (one of them is inactive).
C12_Witness ==
  /\ Len(store) = 3
  /\ \E i, j \in DOMAIN store :
       i < j /\ store[i].name = store[j].name /\ ~store[i].active

\* C13: a query by URI scope returns exactly the PackageCollection / Stage
\* documents whose uri equals the scope: every returned document has that
\* uri, every stored document with that uri is returned, so no document
\* under a proper extension or a proper prefix of the scope is; and the
\* Stages panel lists the returned documents as they are.
C13_UriQueryExactMatch ==
  (lastQuery.ok /\ lastQuery.cmd \in BothQueries) =>
    LET docs == IF lastQuery.cmd = "get_stages_by_uri" THEN store ELSE colls
        returned == { lastQuery.ids[k] : k \in DOMAIN lastQuery.ids }
    IN  /\ returned =
             { i \in 1..lastQuery.size : docs[i].uri = lastQuery.uri }
        /\ \A i \in returned :
             /\ ~(IsPrefix(lastQuery.uri, docs[i].uri)
                    /\ docs[i].uri # lastQuery.uri)
             /\ ~(IsPrefix(docs[i].uri, lastQuery.uri)
                    /\ docs[i].uri # lastQuery.uri)
        /\ (lastQuery.cmd = "get_stages_by_uri" /\ page.stages # << >>) =>
             \A k \in DOMAIN page.stages :
               page.stages[k].uri = lastQuery.uri

\* A query for proj/char has answered with the one collection stored there,
\* while collections are stored under proj and under proj/char/maya.
C13_Witness ==
  /\ lastQuery.ok
  /\ lastQuery.cmd = "get_package_collections_by_uri"
  /\ lastQuery.uri = UriChar
  /\ Len(lastQuery.ids) = 1
  /\ \E i, j \in DOMAIN colls :
       /\ colls[i].uri = UriProj
       /\ colls[j].uri = UriMaya
  /\ Len(page.packages) = 1

\* The panel a query feeds, as the page shows it.
PanelOf(cmd, p) ==
  IF cmd = "get_stages_by_uri" THEN StagesPanel(p) ELSE PackagesPanel(p)

\* Each query of `cmds` that is answered leaves its panel in the state of
\* its outcome: no match, the "no items" message; a failure, the error.
QueryStatesShown(cmds) ==
  \A r \in net["s1"] \ net'["s1"] :
    r.cmd \in cmds =>
      /\ (lastQuery'.ok /\ lastQuery'.ids = << >>) =>
           /\ ShowsNoItems(PanelOf(r.cmd, page'))
           /\ ~ShowsError(PanelOf(r.cmd, page'))
      /\ ~lastQuery'.ok =>
           /\ ShowsError(PanelOf(r.cmd, page'))
           /\ ~ShowsNoItems(PanelOf(r.cmd, page'))

\* C14: a URI query with no matches leaves the panel with a "no items"
\* message that is not an error, a failed query leaves it with an error, the
\* two never look the same, and after a failed query the panel shows the
\* error rather than the empty state or a list populated before.
C14_EmptyAndErrorDistinct ==
  [][QueryStatesShown(BothQueries)]_vars

WriteRequests(n) ==
  UNION { { <<s, r>> : r \in { q \in n[s] :
                                q.cmd \in {"save_stage_to_mongodb",
                                           "revert_stage"} } } :
          s \in Sessions }

\* C16: each user-issued Bake, Push or Revert causes at most one invocation
\* of its persistence command; a failed invocation is reported to the caller
\* as an explicit error and is not issued again: the step that executes a
\* command consumes its invocation and issues none, and no step issues two.
C16_AtMostOneInvocationNoRetry ==
  [][ /\ Cardinality(WriteRequests(net') \ WriteRequests(net)) <= 1
      /\ (last' # last \/ pre' # pre) =>
           /\ Cardinality(WriteRequests(net) \ WriteRequests(net')) = 1
           /\ WriteRequests(net') \subseteq WriteRequests(net)
           /\ ~last'.ok =>
                /\ last'.err # ""
                /\ last'.event \notin {"bake-complete success",
                                       "push-complete", "revert-complete"} ]_vars

\* A bake has failed, its failure was dispatched, and no invocation is
\* pending.
C16_Witness ==
  /\ last.op = "bake" /\ ~last.ok
  /\ last.event = "bake-complete failure"
  /\ WriteRequests(net) = {}

\* C17: a Push whose target name is the source stage's own name is accepted
\* and succeeds: it adds one document, a new version of that same stage,
\* which is the active one of the name.
C17_PushToOwnNameAddsVersion ==
  (last.op = "push" /\ last.ok /\ last.form.name = pre[last.src].name) =>
    /\ last.event = "push-complete"
    /\ Len(store) = Len(pre) + 1
    /\ last.id = Len(store)
    /\ store[last.id].name = pre[last.src].name
    /\ store[last.id].uri = pre[last.src].uri
    /\ store[last.id].active
    /\ ActiveIds(store, store[last.id].name) = {last.id}

\* The name of a listed stage was typed as a new stage name and pushed: the
\* stage has a second version.
C17_Witness ==
  /\ last.op = "push" /\ last.ok
  /\ store[last.id].name = pre[last.src].name
  /\ Cardinality(NamedIds(store, store[last.id].name)) = 2
  /\ Cardinality(NamedIds(pre, store[last.id].name)) = 1

DistinctKeys(envVars) ==
  \A i, j \in DOMAIN envVars : envVars[i].key = envVars[j].key => i = j

\* C20: after any sequence of addEnvVar and removeEnvVar the environment
\* variable list of the bake form has pairwise distinct keys; an add of a
\* key that is already present replaces the value of that entry (last write
\* wins) and changes neither the length of the list nor the position of any
\* entry; and the list submitted with a bake has distinct keys.
C20_EnvVarKeysDistinct ==
  \A s \in Sessions :
    LET envVars == bakeM[s].envVars
        added == bakeM[s].added
        key == trim(added.key)
        value == trim(added.value)
    IN  /\ DistinctKeys(envVars)
        /\ (key # << >> /\ value # << >>
              /\ \E i \in DOMAIN added.before : added.before[i].key = key) =>
             /\ Len(envVars) = Len(added.before)
             /\ \A i \in DOMAIN envVars :
                  /\ envVars[i].key = added.before[i].key
                  /\ envVars[i].value =
                       IF added.before[i].key = key
                         THEN value
                         ELSE added.before[i].value
        /\ \A r \in Pending(s, "save_stage_to_mongodb") :
             r.from = "handleBakeSubmit" =>
               DistinctKeys(r.stageData.environment_variables)

\* The list holds K and L, the last click on Add gave K, typed with a
\* leading blank, a new value, and K is still the first entry.
C20_Witness ==
  /\ Len(bakeM["s1"].envVars) = 2
  /\ bakeM["s1"].envVars[1] = [key |-> <<"K">>, value |-> <<"2">>]
  /\ bakeM["s1"].added.key = <<SP, "K">>
  /\ bakeM["s1"].added.before[1] = [key |-> <<"K">>, value |-> <<"1">>]
  /\ Len(bakeM["s1"].added.before) = 2

\* C21: a click on Revert on a stage of the Stages panel leads to an older
\* stored version of that stage being made active: a revert_stage command
\* for a version of the stage is eventually executed with success and the
\* active version of the stage is then the one it names.
C21_RevertButtonReverts ==
  (page.reverting # << >>) ~>
    (/\ last.op = "revert" /\ last.ok
     /\ store[last.id].name = page.reverting
     /\ store[last.id].active)

\* The panel items the commands hold for a URI: none for the empty URI.
PackagesOf(uri) ==
  IF uri = << >>
    THEN << >>
    ELSE LET ids == get_package_collections_by_uri(colls, uri)
         IN  [k \in DOMAIN ids |-> PackageItem(colls[ids[k]])]

StagesOf(uri) ==
  IF uri = << >>
    THEN << >>
    ELSE LET ids == get_stages_by_uri(store, uri)
         IN  [k \in DOMAIN ids |-> StageItem(store, ids[k])]

\* C22: whenever no fetch is in flight, the displayed package collections
\* and stages are those of the URI built from the current project, modeling
\* and application selections.
C22_ListsFollowSelections ==
  net["s1"] = {} =>
    /\ page.packages = PackagesOf(buildCurrentUri(page))
    /\ page.stages = StagesOf(buildCurrentUri(page))

\* C23: every step that changes projectSelection leaves modelingSelection
\* and applicationSelection at "select", and every step that changes
\* modelingSelection leaves applicationSelection at "select".
C23_ChildSelectionsReset ==
  [][/\ page'.projectSelection # page.projectSelection =>
          /\ page'.modelingSelection = "select"
          /\ page'.applicationSelection = "select"
     /\ page'.modelingSelection # page.modelingSelection =>
          page'.applicationSelection = "select"]_vars

\* C24: in the step where handlePush resumes after save_stage_to_mongodb,
\* push-complete and close are dispatched only when the save succeeded; when
\* it failed neither is dispatched, a modal that is open stays open with its
\* stage, loading is false, error holds the failure message and the store
\* is as it was.
C24_PushEventsOnlyAfterSave ==
  [][\A s \in Sessions :
       (\E r \in net[s] \ net'[s] :
           r.cmd = "save_stage_to_mongodb" /\ r.from = "handlePush")
       => IF last'.ok
            THEN /\ last'.event = "push-complete"
                 /\ ~pushM'[s].open
                 /\ Len(store') = Len(store) + 1
            ELSE /\ last'.event # "push-complete"
                 /\ pushM'[s].open = pushM[s].open
                 /\ ~pushM'[s].loading
                 /\ pushM'[s].error = "Failed to push stage"
                 /\ pushM'[s].stageData = pushM[s].stageData
                 /\ store' = store]_vars

C24_Witness ==
  /\ last.op = "push"
  /\ ~last.ok
  /\ pushM["s1"].open
  /\ ~pushM["s1"].loading
  /\ pushM["s1"].error = "Failed to push stage"

\* C25: once every stage fetch in flight has been answered, in whatever
\* order, the displayed stages are those of the latest selection
\* (currentUri); likewise for the package collection fetches.
C25_LatestSelectionWins ==
  /\ Pending("s1", "get_stages_by_uri") = {} =>
       page.stages = StagesOf(page.currentUri)
  /\ Pending("s1", "get_package_collections_by_uri") = {} =>
       page.packages = PackagesOf(page.currentUri)

\* C26: whenever the revert modal is open it eventually leaves the loading
\* state, whatever the values of its stageName and stageUri props.
C26_RevertModalLeavesLoading ==
  revM["s1"].open ~> ~revM["s1"].loading

\* The document is the only active one of its name.
OnlyActive(st, stageId) ==
  \A i \in DOMAIN st :
     st[i].name = st[stageId].name => (st[i].active <=> i = stageId)

\* C27: revert is idempotent.  On every reachable store, reverting to a
\* document twice gives the store that reverting once gives, and reverting
\* to the document that is already the active one of its name gives the
\* store itself; a revert_stage command executed with success right after
\* one for the same document, or for the active document, changes nothing.
C27_RevertIdempotent ==
  [][/\ \A stageId \in DOMAIN store :
          /\ revert_stage(revert_stage(store, stageId), stageId)
               = revert_stage(store, stageId)
          /\ OnlyActive(store, stageId) => revert_stage(store, stageId) = store
     /\ \A r \in net["s1"] \ net'["s1"] :
          (/\ r.cmd = "revert_stage"
           /\ last'.ok
           /\ \/ last.op = "revert" /\ last.ok /\ last.id = r.stageId
              \/ OnlyActive(store, r.stageId))
          => store' = store]_vars

\* Revert to the older version of the seeded stage, executed for the second
\* time in a row.
C27_Witness ==
  /\ Len(store) = 2
  /\ last.op = "revert" /\ last.ok /\ last.id = 1
  /\ pre = store
  /\ store[1].active /\ ~store[2].active

\* C28: activePackage and activeStage are never both set, and items marked
\* active exist only in the list of the kind clicked last: no stage is
\* marked unless a stage was clicked last (activeStage is set), no package
\* unless a package was.
C28_OneKindActive ==
  /\ ~(page.activePackage # "" /\ page.activeStage # << >>)
  /\ page.activeStage = << >> =>
       \A item \in Items(page.stages) : ~isActiveItem(item)
  /\ page.activePackage = "" =>
       \A item \in Items(page.packages) : ~isActiveItem(item)

\* A stage was clicked after a package: the stage is marked, the package
\* still listed is not.
C28_Witness ==
  /\ page.activeStage # << >>
  /\ \E item \in Items(page.stages) : isActiveItem(item)
  /\ \E item \in Items(page.packages) :
        "active" \in DOMAIN item /\ ~item.active

\* C29: a package form submitted while no project is selected invokes
\* nothing, adds no package to the displayed list, logs an error and closes
\* the modal; no save_package_collection is ever sent, and no package
\* collection ever stored, with an empty uri.
C29_NoSaveWithoutProject ==
  [][/\ (/\ page.packageModalOpen
         /\ opened' # opened
         /\ buildCurrentUri(page) = << >>)
        => /\ net' = net
           /\ colls' = colls
           /\ page'.packages = page.packages
           /\ page'.submitRejected
           /\ ~page'.packageModalOpen
     /\ \A r \in net'["s1"] :
          r.cmd = "save_package_collection" => r.packageData.uri # << >>
     /\ \A k \in DOMAIN colls' : colls'[k].uri # << >>]_vars

C29_Witness ==
  /\ page.submitRejected
  /\ ~page.packageModalOpen
  /\ buildCurrentUri(page) = << >>
  /\ net["s1"] = {}
  /\ colls = SeedCollections

\* C30: after every step at most one of the three dropdowns is open and at
\* most one of the three add forms is active, and a step that activates an
\* add form (startAddingOption) leaves the three dropdowns closed.
C30_OneDropdownOneForm ==
  [][/\ Cardinality({ d \in Dropdowns : DropdownOpen(d)' }) <= 1
     /\ Cardinality({ d \in Dropdowns : IsAdding(d)' }) <= 1
     /\ (\E d \in Dropdowns : ~IsAdding(d) /\ IsAdding(d)')
          => \A d \in Dropdowns : ~DropdownOpen(d)']_vars

\* An add form is active while the dropdown of another level is open.
C30_Witness ==
  /\ \E d \in Dropdowns : IsAdding(d)
  /\ \E d \in Dropdowns : DropdownOpen(d)

====
